---- MODULE Spec2Model ----
(***************************************************************************)
(* A model of post_process.py: the trajectory pipeline that parses the     *)
(* per-recording track logs, stitches them per (condition, date) group,    *)
(* filters and trims the trajectories, derives the kinematics and the pair *)
(* distance, and writes one table per group.                               *)
(*                                                                         *)
(* A table (pandas DataFrame) is a sequence of rows, in the frame's row    *)
(* order; a row is a record [traj, t, x, y].  Times are integers (seconds) *)
(* and positions are integers; a start time is a whole number of hours.    *)
(***************************************************************************)
EXTENDS Integers, Sequences, FiniteSets, TLC

VARIABLES
    pc,                 \* the statement the modelled function is at
    trajdir,            \* the recordings of the directory (os.listdir)
    cond_df,            \* the conditions file: (date, camera) -> condition
    files,              \* get_filenames' catalog, or combine_traj_files' argument
    n,                  \* number of tracks per recording (cond_beenum[c])
    min_length, trim_start_frames, trim_end_frames,
    gi,                 \* position of the (c, d) loops of process_trajectories
    df,                 \* the trajectory table being worked on
    stray,              \* rows of df that are no samples (see filter_traj)
    ddf,                \* the pair-distance table
    out_dir,            \* the tables written by to_csv, by destination
    stdout,             \* the groups announced by "Processing condtion ..."
    err                 \* the exception that ended the run, or "none"

vars == <<pc, trajdir, cond_df, files, n, min_length, trim_start_frames,
          trim_end_frames, gi, df, stray, ddf, out_dir, stdout, err>>

None == "None"

(***************************************************************************)
(* Helpers on sequences.  A sequence built by a function constructor is    *)
(* written "[i \in 1..k |-> e] \o <<>>": the same sequence, as a tuple.     *)
(***************************************************************************)
RECURSIVE SumLens(_)
SumLens(ss) == IF ss = <<>> THEN 0 ELSE Len(Head(ss)) + SumLens(Tail(ss))

RECURSIVE Concat(_)
\* pd.concat of a list of tables: the rows of each, in list order
Concat(ss) == IF ss = <<>> THEN <<>> ELSE Head(ss) \o Concat(Tail(ss))

\* df['traj'].max() of a table with rows
MaxTraj(s) == CHOOSE m \in {s[i].traj : i \in 1..Len(s)} :
                 \A i \in 1..Len(s) : s[i].traj <= m

\* lexicographic order of keys of the same length
KeyLess(k1, k2) ==
    \E i \in 1..Len(k1) : k1[i] < k2[i] /\ \A j \in 1..(i - 1) : k1[j] = k2[j]

\* a stable sort of s by the keys key[i] (sort_values on several columns
\* sorts by lexsort, which keeps the order of rows with equal keys)
RankOf(key, i) ==
    1 + Cardinality({j \in 1..Len(key) :
            KeyLess(key[j], key[i]) \/ (key[j] = key[i] /\ j < i)})

StableSortBy(s, key) ==
    [p \in 1..Len(s) |-> s[CHOOSE i \in 1..Len(s) : RankOf(key, i) = p]] \o <<>>

(***************************************************************************)
(* get_metadata: the camera name and the start time a file name carries.   *)
(* A file name is modelled by the fields it is parsed into: camera is the  *)
(* rank of the camera name in string order, start the timestamp in hours.  *)
(***************************************************************************)
SecondsPerHour == 3600
HoursPerDay == 24

get_metadata(f) == [camera_name |-> f.camera, date_time |-> f.start]

\* (dtime - first_time).total_seconds()
total_seconds(dtime, first_time) == (dtime - first_time) * SecondsPerHour

(***************************************************************************)
(* parse_traj_file: a recording's log is a sequence of wide rows           *)
(* [t, tracks], tracks a sequence of [traj, x, y]; the i-th slice takes    *)
(* columns 0, 3i+1, 3i+2, 3i+3.  read_csv fails when a row has fewer       *)
(* columns than usecols asks for.                                          *)
(***************************************************************************)
Slice(wide, i) ==
    [r \in 1..Len(wide) |->
        [traj |-> wide[r].tracks[i].traj, t |-> wide[r].t,
         x |-> wide[r].tracks[i].x, y |-> wide[r].tracks[i].y]] \o <<>>

parse_ok(wide, k) == \A r \in 1..Len(wide) : Len(wide[r].tracks) >= k

TrajTKeys(cat) == [r \in 1..Len(cat) |-> <<cat[r].traj, cat[r].t>>] \o <<>>

SortByTrajT(cat) == StableSortBy(cat, TrajTKeys(cat))

parse_traj_file(wide, k) ==
    SortByTrajT(Concat([i \in 1..k |-> Slice(wide, i)] \o <<>>))

(***************************************************************************)
(* combine_traj_files: the fold over the files, in the order given.  The   *)
(* accumulator is the function's locals (first, first_time, traj_max,      *)
(* df_list); int(max()) of a recording without rows raises ValueError, a   *)
(* recording with too few columns fails in read_csv.                       *)
(***************************************************************************)
CombineInit == [first |-> TRUE, first_time |-> 0, traj_max |-> -1,
                df_list |-> <<>>, err |-> "none"]

\* a faulty variant: the time base follows the current file
first_time_of_current(acc, dtime) == dtime

\* lines 103-105: first_time is set by the first file only
first_time_of(acc, dtime) == IF acc.first THEN dtime ELSE acc.first_time

\* a faulty variant: the offset reuses the largest index handed out
traj_offset_no_gap(acc) == acc.traj_max

\* line 111: traj_max + 1
traj_offset(acc) == acc.traj_max + 1

\* lines 109-111: the recording's table with its times and indices shifted
Shifted(parsed, seconds, offset) ==
    [r \in 1..Len(parsed) |->
        [parsed[r] EXCEPT !.t = @ + seconds, !.traj = @ + offset]] \o <<>>

\* lines 113-114
Appended(acc, first_time, df_current) ==
    IF Len(df_current) = 0
    THEN [acc EXCEPT !.err = "ValueError:max"]
    ELSE [first |-> FALSE, first_time |-> first_time,
          traj_max |-> MaxTraj(df_current),
          df_list |-> Append(acc.df_list, df_current),
          err |-> "none"]

CombineStep(acc, path, k) ==
    LET dtime == get_metadata(path).date_time
        first_time == first_time_of(acc, dtime)
    IN  IF ~parse_ok(path.wide, k)
        THEN [acc EXCEPT !.err = "ValueError:usecols"]
        ELSE Appended(acc, first_time,
                      Shifted(parse_traj_file(path.wide, k),
                              total_seconds(dtime, first_time),
                              traj_offset(acc)))

RECURSIVE CombineFold(_, _, _)
CombineFold(acc, fs, k) ==
    IF fs = <<>> \/ acc.err # "none" THEN acc
    ELSE CombineFold(CombineStep(acc, Head(fs), k), Tail(fs), k)

\* the result: [err, df]; pd.concat of an empty list raises ValueError
combine_traj_files(fs, k) ==
    LET acc == CombineFold(CombineInit, fs, k)
    IN  IF acc.err # "none" THEN [err |-> acc.err, df |-> None]
        ELSE IF acc.df_list = <<>> THEN [err |-> "ValueError:concat", df |-> None]
        ELSE [err |-> "none", df |-> Concat(acc.df_list)]

(***************************************************************************)
(* Indexing a table by its 'traj' index.                                   *)
(*   Unique(df)    df.index.unique(): the labels in order of appearance    *)
(*   Loc(df, i)    the rows of label i, in row order                       *)
(*   LocLen(df, i) len(df.loc[i]): df.loc[i] is a DataFrame when several   *)
(*                 rows carry label i, and the Series of the one row (its  *)
(*                 fields t, x, y) when a single row does, so len() is     *)
(*                 then the number of columns                              *)
(*   LocList(df, l) df.loc[list]: the rows of each label of l in turn      *)
(***************************************************************************)
RowFields == <<"t", "x", "y">>

RECURSIVE UniqueFrom(_, _)
UniqueFrom(s, seen) ==
    IF s = <<>> THEN <<>>
    ELSE IF Head(s).traj \in seen THEN UniqueFrom(Tail(s), seen)
    ELSE <<Head(s).traj>> \o UniqueFrom(Tail(s), seen \cup {Head(s).traj})

Unique(table) == UniqueFrom(table, {})

HasTraj(r, i) == r.traj = i

Loc(table, i) == SelectSeq(table, LAMBDA r : HasTraj(r, i))

LocLen(table, i) ==
    IF Len(Loc(table, i)) = 1 THEN Len(RowFields) ELSE Len(Loc(table, i))

LocList(table, labels) == Concat([j \in 1..Len(labels) |-> Loc(table, labels[j])] \o <<>>)

(***************************************************************************)
(* filter_traj.  The result is [err, df, stray]: df the rows returned that *)
(* are samples, stray the rows that pd.concat makes of the field-wise      *)
(* slice of a single-row trajectory (df1.loc[i] is then a Series, and      *)
(* [a:b] slices its fields t, x, y), each [traj, field].                   *)
(***************************************************************************)
\* line 140
Detected(r) == r.x > 0 /\ r.y > 0

\* lines 143-146
GoodLengthIdxs(df1, min_len) ==
    SelectSeq(Unique(df1), LAMBDA i : LocLen(df1, i) >= min_len)

\* s[a:-b] for b > 0, and s[a:] for b = 0 (lines 153, 159), 0 <= a
PySlice(s, a, b) == SubSeq(s, a + 1, Len(s) - b)

\* one element of the list handed to pd.concat at lines 153 and 159
TrimmedRows(df1, i, a, b) ==
    IF Len(Loc(df1, i)) = 1 THEN <<>> ELSE PySlice(Loc(df1, i), a, b)

TrimmedStray(df1, i, a, b) ==
    IF Len(Loc(df1, i)) = 1
    THEN LET flds == PySlice(RowFields, a, b)
         IN  [j \in 1..Len(flds) |-> [traj |-> i, field |-> flds[j]]] \o <<>>
    ELSE <<>>

Trimmed(df1, a, b) ==
    LET ids == Unique(df1)
    IN  IF ids = <<>>
        THEN [err |-> "ValueError:concat", df |-> None, stray |-> <<>>]
        ELSE [err |-> "none",
              df |-> Concat([j \in 1..Len(ids) |-> TrimmedRows(df1, ids[j], a, b)] \o <<>>),
              stray |-> Concat([j \in 1..Len(ids) |-> TrimmedStray(df1, ids[j], a, b)] \o <<>>)]

FilterGood(df1, min_len) == LocList(df1, GoodLengthIdxs(df1, min_len))

FilterTrim(df1, trim_start, trim_end) ==
    IF trim_end > 0 THEN Trimmed(df1, trim_start, trim_end)
    ELSE IF trim_start > 0 THEN Trimmed(df1, trim_start, 0)
    ELSE [err |-> "none", df |-> df1, stray |-> <<>>]

filter_traj(table, min_len, trim_start, trim_end) ==
    IF ~(trim_start + trim_end < min_len)
    THEN [err |-> "AssertionError:trim", df |-> None, stray |-> <<>>]
    ELSE FilterTrim(FilterGood(SelectSeq(table, Detected), min_len),
                    trim_start, trim_end)

(***************************************************************************)
(* calculate_velocity.  The derived values are kept as the integers they   *)
(* are computed from:                                                      *)
(*   angle     arctan2(dy, dx)                     [nan, dy, dx]           *)
(*   speed     sqrt(sq) / dt, sq = dx^2 + dy^2     [nan, sq, dt]           *)
(*   rotation  wrap(angle - previous angle) / dt   [nan, dy, dx, pdy, pdx, *)
(*                                                  dt]                    *)
(* The differences of lines 258-273 are taken between neighbouring rows of *)
(* the whole table.  NaN is [nan |-> TRUE]; a value computed from a NaN    *)
(* is NaN.                                                                 *)
(***************************************************************************)
NaN == [nan |-> TRUE]

\* lines 258-260: np.insert(np.arctan2(...), 0, np.nan)
AngleAt(table, r) ==
    IF r = 1 THEN NaN
    ELSE [nan |-> FALSE, dy |-> table[r].y - table[r - 1].y,
          dx |-> table[r].x - table[r - 1].x]

\* lines 263-268
SpeedAt(table, r) ==
    IF r = 1 THEN NaN
    ELSE [nan |-> FALSE,
          sq |-> (table[r].x - table[r - 1].x) * (table[r].x - table[r - 1].x)
                 + (table[r].y - table[r - 1].y) * (table[r].y - table[r - 1].y),
          dt |-> table[r].t - table[r - 1].t]

\* lines 271-273: df.angle[1:] - df.angle[:-1], NaN where df.angle[r - 1] is
RotationAt(table, r) ==
    IF r = 1 \/ AngleAt(table, r - 1).nan THEN NaN
    ELSE [nan |-> FALSE,
          dy |-> AngleAt(table, r).dy, dx |-> AngleAt(table, r).dx,
          pdy |-> AngleAt(table, r - 1).dy, pdx |-> AngleAt(table, r - 1).dx,
          dt |-> table[r].t - table[r - 1].t]

WithKinematics(table) ==
    [r \in 1..Len(table) |->
        [traj |-> table[r].traj, t |-> table[r].t, x |-> table[r].x,
         y |-> table[r].y, angle |-> AngleAt(table, r),
         speed |-> SpeedAt(table, r), rotation |-> RotationAt(table, r)]] \o <<>>

\* the first row of label i
FirstRowOf(table, i) == CHOOSE r \in 1..Len(table) :
    table[r].traj = i /\ \A q \in 1..(r - 1) : table[q].traj # i

(***************************************************************************)
(* Lines 276-277: df.loc[i].iloc[0][[...]] = np.nan assigns to the object  *)
(* that df.loc[i].iloc[0] returns.  For a label with one row df.loc[i] is  *)
(* that row and .iloc[0] its first field, a float: the assignment raises   *)
(* TypeError.  For a label with several rows .iloc[0] is a row that is     *)
(* either a view of df's data or a copy of it (pandas decides by the       *)
(* frame's internal layout): written == TRUE is the outcome where the      *)
(* assignment reaches df, FALSE the one where it changes a copy only.      *)
(***************************************************************************)
RECURSIVE ClearFirstRows(_, _, _)
ClearFirstRows(table, ids, written) ==
    IF ids = <<>> THEN [err |-> "none", df |-> table]
    ELSE IF Len(Loc(table, Head(ids))) = 1
    THEN [err |-> "TypeError:setitem", df |-> table]
    ELSE ClearFirstRows(
            IF written
            THEN [table EXCEPT ![FirstRowOf(table, Head(ids))] =
                    [@ EXCEPT !.angle = NaN, !.speed = NaN, !.rotation = NaN]]
            ELSE table,
            Tail(ids), written)

\* the table is changed in place: df holds the new columns also when the
\* loop raises.  A table without rows fails at line 259 (one value for no row).
calculate_velocity(table, written) ==
    IF table = <<>> THEN [err |-> "ValueError:length", df |-> table]
    ELSE ClearFirstRows(WithKinematics(table), Unique(table), written)

(***************************************************************************)
(* calculate_distances.  sort_index() orders the rows by t and leaves the  *)
(* order of rows with the same t open (it is not a stable sort): tie ranks *)
(* the trajectory labels, and rows of one t come in the order of tie.      *)
(* A distance d is kept as its square dsq.  The result is [err, ddf], ddf  *)
(* a sequence of [t, dsq] in index order.                                  *)
(***************************************************************************)
\* line 291
SortIndex(table, tie) ==
    StableSortBy(table,
        [r \in 1..Len(table) |-> <<table[r].t, tie[table[r].traj]>>] \o <<>>)

\* line 293: the labels of dft[1:] where index[1:] == index[:-1]
TwoBeeTimes(dft) ==
    LET hit == SelectSeq([r \in 1..Len(dft) |-> r] \o <<>>,
                         LAMBDA r : r > 1 /\ dft[r].t = dft[r - 1].t)
    IN  [j \in 1..Len(hit) |-> dft[hit[j]].t] \o <<>>

\* a faulty variant: the assertion of line 296 is left out
HasDuplicates_unchecked(labels) == FALSE

\* line 296: Index.has_duplicates
HasDuplicates(labels) ==
    \E j \in 1..Len(labels) : \E k \in (j + 1)..Len(labels) :
        labels[j] = labels[k]

\* line 298: dft.loc[ddf.index], the rows of each label in turn
LocTimes(dft, labels) ==
    Concat([j \in 1..Len(labels) |->
              SelectSeq(dft, LAMBDA r : r.t = labels[j])] \o <<>>)

\* a faulty variant: the y term is left out
SqDist_x_only(a, b) == (a.x - b.x) * (a.x - b.x)

\* lines 301-303: the squared difference of one row pair, summed
SqDist(a, b) == (a.x - b.x) * (a.x - b.x) + (a.y - b.y) * (a.y - b.y)

\* lines 301-303: rows 1::2 against rows ::2, one distance per label
Distances(rows, labels) ==
    [j \in 1..Len(labels) |->
        [t |-> labels[j], dsq |-> SqDist(rows[2 * j], rows[2 * j - 1])]] \o <<>>

DistancesOf(dft, labels) ==
    IF Len(labels) = 0 THEN [err |-> "AssertionError:len", ddf |-> None]
    ELSE IF HasDuplicates(labels)
    THEN [err |-> "AssertionError:has_duplicates", ddf |-> None]
    ELSE [err |-> "none", ddf |-> Distances(LocTimes(dft, labels), labels)]

SortedDistances(dft) == DistancesOf(dft, TwoBeeTimes(dft))

calculate_distances(table, tie) == SortedDistances(SortIndex(table, tie))

(***************************************************************************)
(* get_filenames: one catalog entry [condition, date, path] per recording  *)
(* of the directory, sorted by condition, date and path.  A path is        *)
(* trajdir/<camera>-<timestamp>-...: paths compare by camera name first,   *)
(* then by the fixed-width timestamp.  A date is a day number.             *)
(***************************************************************************)
TimeOffset == 9

\* line 55: (metadata[1] - offset_delta).date()
DateOf(f, time_offset) == (get_metadata(f).date_time - time_offset) \div HoursPerDay

\* lines 52-57, in some order of os.listdir
RECURSIVE FileList(_, _, _)
FileList(dir, conds, time_offset) ==
    IF dir = {} THEN <<>>
    ELSE LET f == CHOOSE g \in dir : TRUE
             date == DateOf(f, time_offset)
         IN  <<[condition |-> conds[<<date, get_metadata(f).camera_name>>],
                date |-> date, path |-> f]>>
             \o FileList(dir \ {f}, conds, time_offset)

\* line 62: by=['condition', 'date', 'path']; a path starts with the camera
\* name, followed by the start timestamp
PathKey(e) == <<e.condition, e.date, e.path.camera, e.path.start>>

\* lines 59-63
SortedCatalog(list) ==
    StableSortBy(list, [j \in 1..Len(list) |-> PathKey(list[j])] \o <<>>)

get_filenames(dir, conds, time_offset) ==
    SortedCatalog(FileList(dir, conds, time_offset))

(***************************************************************************)
(* process_trajectories: the loops over files.index.levels[0] and          *)
(* levels[1], the conditions and the dates of the catalog, each sorted.    *)
(***************************************************************************)
cond_beenum == (1 :> 1) @@ (2 :> 2) @@ (3 :> 2) @@ (4 :> 4)

SortedSeq(S) ==
    [k \in 1..Cardinality(S) |->
        CHOOSE v \in S : Cardinality({u \in S : u < v}) = k - 1] \o <<>>

Levels0(catalog) == SortedSeq({catalog[j].condition : j \in 1..Len(catalog)})
Levels1(catalog) == SortedSeq({catalog[j].date : j \in 1..Len(catalog)})

\* lines 329-330: the (c, d) of every pass, c in the outer loop
LoopKeys(catalog) ==
    LET cs == Levels0(catalog)
        ds == Levels1(catalog)
    IN  [k \in 1..(Len(cs) * Len(ds)) |->
            [c |-> cs[((k - 1) \div Len(ds)) + 1],
             d |-> ds[((k - 1) % Len(ds)) + 1]]] \o <<>>

\* line 332: files.loc[c, d].values.flat, the paths of the entries of (c, d)
PathsOf(catalog, key) ==
    LET rows == SelectSeq(catalog,
                    LAMBDA e : e.condition = key.c /\ e.date = key.d)
    IN  [j \in 1..Len(rows) |-> rows[j].path] \o <<>>

(***************************************************************************)
(* The table and parameter values no stage is working with.                *)
(***************************************************************************)
Idle == [trajdir |-> {}, cond_df |-> <<>>, files |-> <<>>, n |-> 0,
         min_length |-> 0, trim_start_frames |-> 0, trim_end_frames |-> 0,
         gi |-> 0, df |-> None, stray |-> <<>>, ddf |-> None,
         out_dir |-> <<>>, stdout |-> <<>>]

(***************************************************************************)
(* SpecStitch: combine_traj_files on any ordered sequence of at most       *)
(* MaxFiles recordings of n tracks.  A recording has the frames of         *)
(* FrameTimes; track slot i carries trajectory index ids[i] in 0..MaxId.   *)
(***************************************************************************)
MaxFiles == 3
MaxId == 1
StartHours == {0, 1}
FrameTimes == <<0, 1>>
StitchTracks == {1, 2}

WideOf(ids) ==
    [r \in 1..Len(FrameTimes) |->
        [t |-> FrameTimes[r],
         tracks |-> [i \in 1..Len(ids) |-> [traj |-> ids[i], x |-> 1, y |-> 1]]]]

StitchRecordings(k) ==
    {[camera |-> 1, start |-> s, wide |-> WideOf(ids)] :
        s \in StartHours, ids \in [1..k -> 0..MaxId]}

InitStitch ==
    /\ pc = "combine"
    /\ n \in StitchTracks
    /\ \E len \in 1..MaxFiles : files \in [1..len -> StitchRecordings(n)]
    /\ df = None /\ err = "none" /\ stray = Idle.stray
    /\ trajdir = Idle.trajdir /\ cond_df = Idle.cond_df
    /\ min_length = Idle.min_length
    /\ trim_start_frames = Idle.trim_start_frames
    /\ trim_end_frames = Idle.trim_end_frames
    /\ gi = Idle.gi /\ ddf = Idle.ddf /\ out_dir = Idle.out_dir /\ stdout = Idle.stdout

Combine ==
    /\ pc = "combine"
    /\ LET res == combine_traj_files(files, n)
       IN  df' = res.df /\ err' = res.err
    /\ pc' = "done"
    /\ UNCHANGED <<trajdir, cond_df, files, n, min_length, trim_start_frames,
                   trim_end_frames, gi, stray, ddf, out_dir, stdout>>

NextStitch == Combine

SpecStitch == InitStitch /\ [][NextStitch]_vars

\* Segments[j]: the rows of df that recording j of files contributed, and
\* Originals[j]: the rows parse_traj_file gave for it.  pd.concat keeps the
\* tables in list order, each with all its rows.
Originals == [j \in 1..Len(files) |-> parse_traj_file(files[j].wide, n)]
SegmentsOf(orig) ==
    [j \in 1..Len(orig) |->
        LET before == SumLens(SubSeq(orig, 1, j - 1))
        IN  SubSeq(df, before + 1, before + Len(orig[j]))]

Stitched == pc = "done" /\ err = "none"

\* C1: after combine_traj_files, every trajectory_id of a later recording of
\* the group is strictly greater than every trajectory_id of every earlier
\* recording, so no trajectory_id is shared by two recordings.
C1_IdsNeverCollide ==
    Stitched =>
        \A seg \in {SegmentsOf(Originals)} :
            \A j \in 1..Len(files) : \A k \in (j + 1)..Len(files) :
                \A a \in 1..Len(seg[j]) : \A b \in 1..Len(seg[k]) :
                    seg[j][a].traj < seg[k][b].traj

\* three recordings stitched, the middle one with a gap in its local indices
C1_Witness ==
    /\ Stitched /\ Len(files) = 3 /\ n = 2
    /\ files[1].wide[1].tracks[1].traj = 1
    /\ files[2].wide[1].tracks = <<[traj |-> 1, x |-> 1, y |-> 1],
                                   [traj |-> 1, x |-> 1, y |-> 1]>>
    /\ Len(df) = 3 * 2 * Len(FrameTimes)

\* C2: the stitched time of every sample of every recording is its original
\* t plus the seconds from the first recording's start to its recording's.
C2_TimeOffset ==
    Stitched =>
        \A orig \in {Originals} : \A seg \in {SegmentsOf(orig)} :
            \A j \in 1..Len(files) : \A a \in 1..Len(orig[j]) :
                seg[j][a].t =
                    orig[j][a].t + (files[j].start - files[1].start) * 3600

\* a second recording starting 3600 s after the first: t = 3600 + original t
C2_Witness ==
    /\ Stitched /\ Len(files) >= 2
    /\ files[1].start = 0 /\ files[2].start = 1
    /\ \E a \in 1..Len(df) : df[a].t = 3600 + 1

(***************************************************************************)
(* SpecFilter: filter_traj on a stitched table of at most MaxTrajF         *)
(* trajectories of at most MaxSamples samples each (sorted by traj, then   *)
(* t), with every min_length in 1..MaxMinLength and trims in 0..MaxTrim.   *)
(* A position of FilterPositions with a 0 is the "no detection" sentinel.  *)
(***************************************************************************)
MaxTrajF == 2
MaxSamples == 3
MaxMinLength == 4
MaxTrim == 2
FilterPositions == {<<2, 3>>, <<0, 0>>, <<4, 0>>}

PositionSeqs(maxlen) ==
    UNION {[1..len -> FilterPositions] : len \in 1..maxlen}

\* trajectory j - 1 has the samples pos[j], at times 0, 1, ...
TableOf(pos) ==
    Concat([j \in 1..Len(pos) |->
              [k \in 1..Len(pos[j]) |->
                  [traj |-> j - 1, t |-> k - 1,
                   x |-> pos[j][k][1], y |-> pos[j][k][2]]] \o <<>>] \o <<>>)

InitFilter ==
    /\ pc = "filter"
    /\ \E nt \in 1..MaxTrajF : \E pos \in [1..nt -> PositionSeqs(MaxSamples)] :
          files = TableOf(pos)
    /\ min_length \in 1..MaxMinLength
    /\ trim_start_frames \in 0..MaxTrim
    /\ trim_end_frames \in 0..MaxTrim
    /\ df = None /\ err = "none" /\ stray = Idle.stray
    /\ trajdir = Idle.trajdir /\ cond_df = Idle.cond_df /\ n = Idle.n
    /\ gi = Idle.gi /\ ddf = Idle.ddf /\ out_dir = Idle.out_dir /\ stdout = Idle.stdout

\* df = filter_traj(files, ...): files holds the argument, df the result
Filter ==
    /\ pc = "filter"
    /\ LET res == filter_traj(files, min_length, trim_start_frames,
                              trim_end_frames)
       IN  df' = res.df /\ err' = res.err /\ stray' = res.stray
    /\ pc' = "done"
    /\ UNCHANGED <<trajdir, cond_df, files, n, min_length, trim_start_frames,
                   trim_end_frames, gi, ddf, out_dir, stdout>>

NextFilter == Filter

SpecFilter == InitFilter /\ [][NextFilter]_vars

Filtered == pc = "done" /\ err = "none"

\* the samples of trajectory i left after the sentinel removal
Remaining(i) == SelectSeq(files, LAMBDA r : r.traj = i /\ r.x > 0 /\ r.y > 0)
InputTrajs == {files[k].traj : k \in 1..Len(files)}
OutputRows(i) == SelectSeq(df, LAMBDA r : r.traj = i)

\* C4: a trajectory appears in the output of filter_traj if and only if its
\* number of samples remaining after the sentinel removal is >= min_length,
\* for every remaining count (also a single remaining sample).
C4_KeptIffLongEnough ==
    Filtered =>
        \A i \in InputTrajs :
            (OutputRows(i) # <<>>) <=> (Len(Remaining(i)) >= min_length)

\* C5: every trajectory that passes the length check with k samples is in
\* the output with exactly its samples at positions trim_start_frames ..
\* k - trim_end_frames - 1, so with at least
\* min_length - trim_start_frames - trim_end_frames >= 1 samples, and the
\* output has no other rows.
C5_TrimmedWindow ==
    Filtered =>
        /\ stray = <<>>
        /\ \A i \in InputTrajs :
              LET k == Len(Remaining(i))
              IN  IF LocLen(SelectSeq(files, Detected), i) >= min_length /\ k > 0
                  THEN /\ OutputRows(i) =
                            SubSeq(Remaining(i), trim_start_frames + 1,
                                   k - trim_end_frames)
                       /\ Len(OutputRows(i)) >=
                            min_length - trim_start_frames - trim_end_frames
                       /\ Len(OutputRows(i)) >= 1
                  ELSE OutputRows(i) = <<>>

(***************************************************************************)
(* SpecVelocity: calculate_velocity on a filtered table of at most         *)
(* MaxTrajV trajectories of at most MaxSamplesV samples each.              *)
(***************************************************************************)
MaxTrajV == 2
MaxSamplesV == 3
VelocityPositions == {<<1, 1>>, <<2, 1>>, <<2, 2>>}

VelocityTables ==
    {TableOf(pos) : pos \in
        UNION {[1..nt -> UNION {[1..len -> VelocityPositions] :
                                    len \in 1..MaxSamplesV}] :
               nt \in 1..MaxTrajV}}

InitVelocity ==
    /\ pc = "velocity"
    /\ files \in VelocityTables
    /\ df = files
    /\ err = "none" /\ stray = Idle.stray
    /\ trajdir = Idle.trajdir /\ cond_df = Idle.cond_df /\ n = Idle.n
    /\ min_length = Idle.min_length
    /\ trim_start_frames = Idle.trim_start_frames
    /\ trim_end_frames = Idle.trim_end_frames
    /\ gi = Idle.gi /\ ddf = Idle.ddf /\ out_dir = Idle.out_dir /\ stdout = Idle.stdout

\* calculate_velocity(df, in_place=True); files keeps the table as it was
Velocity ==
    /\ pc = "velocity"
    /\ \E written \in BOOLEAN :
          LET res == calculate_velocity(df, written)
          IN  df' = res.df /\ err' = res.err
    /\ pc' = "done"
    /\ UNCHANGED <<trajdir, cond_df, files, n, min_length, trim_start_frames,
                   trim_end_frames, gi, stray, ddf, out_dir, stdout>>

NextVelocity == Velocity

SpecVelocity == InitVelocity /\ [][NextVelocity]_vars

FirstRows == {r \in 1..Len(df) : r = 1 \/ df[r - 1].traj # df[r].traj}

\* C7: after calculate_velocity the first sample of every trajectory has
\* angle, speed and rotation undefined, and no derived value of the table
\* comes from a difference between the last sample of one trajectory and
\* the first sample of the next (a rotation is defined only where the
\* previous sample's angle is a difference within the trajectory).
C7_FirstSamplesUndefined ==
    (pc = "done" /\ err = "none") =>
        /\ \A r \in FirstRows :
              df[r].angle.nan /\ df[r].speed.nan /\ df[r].rotation.nan
        /\ \A r \in 2..Len(df) :
              (r - 1) \in FirstRows => df[r].rotation.nan

(***************************************************************************)
(* SpecDistances: calculate_distances on a filtered table of at most       *)
(* MaxTrajD trajectories, each with a sample or none at every time of      *)
(* DistanceTimes, and on the table of two trajectories A and B below.      *)
(***************************************************************************)
MaxTrajD == 3
DistanceTimes == {0, 1}
DistancePositions == {<<1, 1>>, <<2, 3>>}
Absent == <<0, 0>>

\* cell[j][t]: the position of trajectory j - 1 at time t, or Absent
CellTable(cell) ==
    Concat([j \in 1..Len(cell) |->
        SelectSeq([k \in 1..Cardinality(DistanceTimes) |->
                      LET t == CHOOSE u \in DistanceTimes :
                                 Cardinality({v \in DistanceTimes : v < u}) = k - 1
                      IN  [traj |-> j - 1, t |-> t,
                           x |-> cell[j][t][1], y |-> cell[j][t][2]]] \o <<>>,
                  LAMBDA r : <<r.x, r.y>> # Absent)] \o <<>>)

DistanceTables ==
    {CellTable(cell) : cell \in
        [1..MaxTrajD -> [DistanceTimes -> DistancePositions \cup {Absent}]]}

TableAB ==
    << [traj |-> 0, t |-> 0, x |-> 0, y |-> 0],
       [traj |-> 0, t |-> 1, x |-> 1, y |-> 0],
       [traj |-> 0, t |-> 2, x |-> 2, y |-> 0],
       [traj |-> 1, t |-> 0, x |-> 0, y |-> 3],
       [traj |-> 1, t |-> 1, x |-> 1, y |-> 3],
       [traj |-> 1, t |-> 2, x |-> 2, y |-> 4] >>

\* tables with a tie: tie trajectories have a sample at time at, and the first
\* others of them a sample at every other time of TieTimes
MaxTie == 4
TieTimes == {0, 1, 2}

TieTable(tie, at, others) ==
    Concat([j \in 1..tie |->
        SelectSeq([k \in 1..Cardinality(TieTimes) |->
                      [traj |-> j - 1, t |-> k - 1, x |-> j, y |-> j * k]] \o <<>>,
                  LAMBDA r : r.t = at \/ j <= others)] \o <<>>)

TieTables ==
    {TieTable(tie, at, others) :
        tie \in 3..MaxTie, at \in TieTimes, others \in 0..2}

TieRanks(table) ==
    LET labels == {table[r].traj : r \in 1..Len(table)}
    IN  {tie \in [labels -> 1..Cardinality(labels)] :
            \A a, b \in labels : a # b => tie[a] # tie[b]}

InitDistances ==
    /\ pc = "distances"
    /\ df \in DistanceTables \cup {TableAB} \cup TieTables
    /\ ddf = None /\ err = "none" /\ stray = Idle.stray
    /\ trajdir = Idle.trajdir /\ cond_df = Idle.cond_df /\ n = Idle.n
    /\ files = Idle.files /\ min_length = Idle.min_length
    /\ trim_start_frames = Idle.trim_start_frames
    /\ trim_end_frames = Idle.trim_end_frames
    /\ gi = Idle.gi /\ out_dir = Idle.out_dir /\ stdout = Idle.stdout

\* ddf = calculate_distances(df)
DistancesCall ==
    /\ pc = "distances"
    /\ \E tie \in TieRanks(df) :
          LET res == calculate_distances(df, tie)
          IN  ddf' = res.ddf /\ err' = res.err
    /\ pc' = "done"
    /\ UNCHANGED <<trajdir, cond_df, files, n, min_length, trim_start_frames,
                   trim_end_frames, gi, df, stray, out_dir, stdout>>

NextDistances == DistancesCall

SpecDistances == InitDistances /\ [][NextDistances]_vars

SamplesAt(t) == {r \in 1..Len(df) : df[r].t = t}
TimesOf(table) == {table[r].t : r \in 1..Len(table)}
AtMostPairs == \A t \in TimesOf(df) : Cardinality(SamplesAt(t)) <= 2
PairedTimes == {t \in TimesOf(df) : Cardinality(SamplesAt(t)) = 2}

\* the table returned for a table in which no timestamp is shared by more
\* than two samples: returned as soon as some timestamp is shared, its
\* index exactly the timestamps shared by two samples, each once and in
\* time order, d the Euclidean distance of the two samples' positions
PairDistancesRight ==
    (pc = "done" /\ AtMostPairs) =>
        /\ (err = "none") <=> (PairedTimes # {})
        /\ err = "none" =>
              /\ {ddf[j].t : j \in 1..Len(ddf)} = PairedTimes
              /\ \A j \in 1..Len(ddf) : \A k \in (j + 1)..Len(ddf) :
                    ddf[j].t < ddf[k].t
              /\ \A j \in 1..Len(ddf) :
                    \E a, b \in SamplesAt(ddf[j].t) :
                        /\ a # b
                        /\ ddf[j].dsq =
                             (df[a].x - df[b].x) * (df[a].x - df[b].x)
                             + (df[a].y - df[b].y) * (df[a].y - df[b].y)

ResultAB(d0, d1, d2) ==
    (pc = "done" /\ df = TableAB) =>
        /\ err = "none"
        /\ ddf = <<[t |-> 0, dsq |-> d0], [t |-> 1, dsq |-> d1],
                   [t |-> 2, dsq |-> d2]>>

\* C8 (as amended): for a table in which no timestamp is shared by more
\* than two samples, and some timestamp is shared by two, calculate_distances
\* returns a table whose index is exactly the set of timestamps shared by
\* two samples, with d the Euclidean distance of the two samples' positions;
\* a timestamp of a single sample never appears.  A at (0,0),(1,0),(2,0) and
\* B at (0,3),(1,3),(2,4) give d^2 = 9, 9, 16.
C8_PairDistances == PairDistancesRight /\ ResultAB(9, 9, 16)

\* C8 as stated: the same, with d^2 = 9, 9, 8 for the table of A and B
C8_AsStated == PairDistancesRight /\ ResultAB(9, 9, 8)

\* the table of A and B has been paired at its three timestamps
C8_Witness ==
    /\ pc = "done" /\ df = TableAB /\ err = "none" /\ Len(ddf) = 3
    /\ PairedTimes = {0, 1, 2}

TiedTimes == {t \in TimesOf(df) : Cardinality(SamplesAt(t)) >= 3}

\* C12: when three or more samples of the table share one timestamp,
\* calculate_distances fails with an assertion error and returns no distance
\* table, whatever the size of the tie (3 or more) and wherever the tied
\* timestamp lies in time order, and whatever order sort_index gives the
\* tied rows.
C12_TieIsAnError ==
    (pc = "done" /\ TiedTimes # {}) =>
        /\ err = "AssertionError:has_duplicates"
        /\ ddf = None

\* a tie of more than three samples at a timestamp that is neither the first
\* nor the last, the other timestamps shared by two samples, has been refused
C12_Witness ==
    /\ pc = "done" /\ TiedTimes = {1} /\ PairedTimes = {0, 2}
    /\ Cardinality(SamplesAt(1)) > 3
    /\ err = "AssertionError:has_duplicates" /\ ddf = None

(***************************************************************************)
(* SpecBatch: process_trajectories over a directory of at most             *)
(* MaxBatchFiles recordings of 1..MaxCam cameras, started at one of        *)
(* BatchStartHours (10:00 of day 0, 08:00 and 10:00 of day 1: with the     *)
(* offset of 9 hours the first two are of date 0), with any conditions     *)
(* 1..MaxCond in the conditions file.  BatchParams are the defaults, a     *)
(* min_length of 1 and a configuration whose trims reach min_length; none  *)
(* of them trims a table.                                                  *)
(***************************************************************************)
MaxBatchFiles == 3
MaxCam == 2
MaxCond == 2
BatchStartHours == {10, 32, 34}
BatchParams ==
    { [min_length |-> 2, trim_start_frames |-> 0, trim_end_frames |-> 0],
      [min_length |-> 1, trim_start_frames |-> 0, trim_end_frames |-> 0],
      [min_length |-> 3, trim_start_frames |-> 2, trim_end_frames |-> 2] }

Track(id, x, y) == [traj |-> id, x |-> x, y |-> y]

\* the logs: two bees seen in both frames; the second bee never seen; the
\* first bee seen in the first frame only; a log with a single track
BatchWides ==
    { << [t |-> 0, tracks |-> <<Track(0, 1, 1), Track(1, 2, 3)>>],
         [t |-> 1, tracks |-> <<Track(0, 2, 1), Track(1, 2, 3)>>] >>,
      << [t |-> 0, tracks |-> <<Track(0, 1, 1), Track(1, 0, 0)>>],
         [t |-> 1, tracks |-> <<Track(0, 2, 1), Track(1, 0, 0)>>] >>,
      << [t |-> 0, tracks |-> <<Track(0, 1, 1), Track(1, 2, 3)>>],
         [t |-> 1, tracks |-> <<Track(0, 0, 0), Track(1, 2, 3)>>] >>,
      << [t |-> 0, tracks |-> <<Track(0, 1, 1)>>],
         [t |-> 1, tracks |-> <<Track(0, 2, 1)>>] >> }

BatchRecordings ==
    [camera : 1..MaxCam, start : BatchStartHours, wide : BatchWides]

\* a directory holds a file name once
Directories ==
    {dir \in SUBSET BatchRecordings :
        /\ Cardinality(dir) \in 1..MaxBatchFiles
        /\ \A f, g \in dir :
              (f.camera = g.camera /\ f.start = g.start) => f = g}

BatchDates == {(h - TimeOffset) \div HoursPerDay : h \in BatchStartHours}

InitBatch ==
    /\ pc = "get_filenames"
    /\ trajdir \in Directories
    /\ cond_df \in [BatchDates \X (1..MaxCam) -> 1..MaxCond]
    /\ \E p \in BatchParams :
          /\ min_length = p.min_length
          /\ trim_start_frames = p.trim_start_frames
          /\ trim_end_frames = p.trim_end_frames
    /\ files = Idle.files /\ n = Idle.n /\ gi = Idle.gi
    /\ df = None /\ stray = Idle.stray /\ ddf = None
    /\ out_dir = Idle.out_dir /\ stdout = Idle.stdout /\ err = "none"

Raise(e) == pc' = "raised" /\ err' = e

\* line 328
GetFilenames ==
    /\ pc = "get_filenames"
    /\ files' = get_filenames(trajdir, cond_df, TimeOffset)
    /\ gi' = 1
    /\ pc' = "print"
    /\ UNCHANGED <<trajdir, cond_df, n, min_length, trim_start_frames,
                   trim_end_frames, df, stray, ddf, out_dir, stdout, err>>

\* lines 329-331: the next (c, d) is announced; line 347 after the last
Announce ==
    /\ pc = "print"
    /\ IF gi <= Len(LoopKeys(files))
       THEN /\ stdout' = Append(stdout, LoopKeys(files)[gi])
            /\ pc' = "combine"
       ELSE /\ pc' = "done"
            /\ UNCHANGED stdout
    /\ UNCHANGED <<trajdir, cond_df, files, n, min_length, trim_start_frames,
                   trim_end_frames, gi, df, stray, ddf, out_dir, err>>

\* line 332: files.loc[c, d] raises KeyError when the catalog has no (c, d)
CombineGroup ==
    /\ pc = "combine"
    /\ LET key == LoopKeys(files)[gi]
           paths == PathsOf(files, key)
           res == combine_traj_files(paths, cond_beenum[key.c])
       IN  IF paths = <<>>
           THEN Raise("KeyError:loc") /\ UNCHANGED <<n, df>>
           ELSE /\ n' = cond_beenum[key.c]
                /\ IF res.err # "none"
                   THEN Raise(res.err) /\ UNCHANGED df
                   ELSE df' = res.df /\ pc' = "filter" /\ UNCHANGED err
    /\ UNCHANGED <<trajdir, cond_df, files, min_length, trim_start_frames,
                   trim_end_frames, gi, stray, ddf, out_dir, stdout>>

\* lines 333-335
FilterGroup ==
    /\ pc = "filter"
    /\ LET res == filter_traj(df, min_length, trim_start_frames,
                              trim_end_frames)
       IN  IF res.err # "none"
           THEN Raise(res.err) /\ UNCHANGED <<df, stray>>
           ELSE /\ df' = res.df /\ stray' = res.stray
                /\ pc' = IF n = 2 THEN "distances" ELSE "velocity"
                /\ UNCHANGED err
    /\ UNCHANGED <<trajdir, cond_df, files, n, min_length, trim_start_frames,
                   trim_end_frames, gi, ddf, out_dir, stdout>>

DistanceFile(key) == <<"distance", key.c, key.d>>
TrajectoryFile(key) == <<"trajectory", key.c, key.d>>

\* to_csv: the file of that name now holds the table
Written(dir, name, table) ==
    [name2 \in DOMAIN dir \cup {name} |->
        IF name2 = name THEN table ELSE dir[name2]]

\* the orders of tied rows tried in a batch run: by label, up and down
\* (SpecDistances tries every order of the tied rows)
BatchTies(table) ==
    LET labels == {table[r].traj : r \in 1..Len(table)}
    IN  {[a \in labels |-> a], [a \in labels |-> 0 - a]}

\* lines 336-340
DistancesGroup ==
    /\ pc = "distances"
    /\ \E tie \in BatchTies(df) :
          LET res == calculate_distances(df, tie)
          IN  IF res.err # "none"
              THEN Raise(res.err) /\ UNCHANGED out_dir
              ELSE /\ out_dir' = Written(out_dir,
                                    DistanceFile(LoopKeys(files)[gi]), res.ddf)
                   /\ pc' = "velocity"
                   /\ UNCHANGED err
    /\ UNCHANGED <<trajdir, cond_df, files, n, min_length, trim_start_frames,
                   trim_end_frames, gi, df, stray, ddf, stdout>>

\* line 341
VelocityGroup ==
    /\ pc = "velocity"
    /\ \E written \in BOOLEAN :
          LET res == calculate_velocity(df, written)
          IN  /\ df' = res.df
              /\ IF res.err # "none"
                 THEN Raise(res.err)
                 ELSE pc' = "to_csv" /\ UNCHANGED err
    /\ UNCHANGED <<trajdir, cond_df, files, n, min_length, trim_start_frames,
                   trim_end_frames, gi, stray, ddf, out_dir, stdout>>

\* lines 342-345
WriteTrajectory ==
    /\ pc = "to_csv"
    /\ out_dir' = Written(out_dir, TrajectoryFile(LoopKeys(files)[gi]), df)
    /\ df' = None
    /\ gi' = gi + 1
    /\ pc' = "print"
    /\ UNCHANGED <<trajdir, cond_df, files, n, min_length, trim_start_frames,
                   trim_end_frames, stray, ddf, stdout, err>>

NextBatch ==
    \/ GetFilenames \/ Announce \/ CombineGroup \/ FilterGroup
    \/ DistancesGroup \/ VelocityGroup \/ WriteTrajectory

SpecBatch == InitBatch /\ [][NextBatch]_vars

CatalogKeys == {[c |-> files[j].condition, d |-> files[j].date] : j \in 1..Len(files)}
BadConfig == trim_start_frames + trim_end_frames >= min_length
GroupStitched == pc \in {"filter", "distances", "velocity", "to_csv"}

\* C3: the recordings of every group are stitched in non-decreasing
\* start_time order, whatever the file names, also with files of different
\* cameras in one (condition, date) group.
C3_ChronologicalOrder ==
    GroupStitched =>
        LET paths == PathsOf(files, LoopKeys(files)[gi])
        IN  \A j \in 1..Len(paths) : \A k \in (j + 1)..Len(paths) :
                paths[j].start <= paths[k].start

\* C6: when trim_start_frames + trim_end_frames >= min_length, the batch
\* run fails with the invalid-configuration error before any data is
\* processed: no recording has been parsed or stitched and no table has
\* been written when it fails.
C6_FailsBeforeAnyData ==
    (BadConfig /\ pc = "raised" /\ err = "AssertionError:trim") =>
        df = None /\ out_dir = <<>>

\* C9: when a group has no timestamp shared by two samples, only its
\* pair-distance step fails: no PairDistanceTable is persisted for the
\* group, and its TrajectoryTable is still persisted.
C9_TrajectoryStillWritten ==
    (pc = "raised" /\ err = "AssertionError:len") =>
        /\ DistanceFile(LoopKeys(files)[gi]) \notin DOMAIN out_dir
        /\ TrajectoryFile(LoopKeys(files)[gi]) \in DOMAIN out_dir

\* C10: in a batch run no (condition, date) key absent from the catalog is
\* processed, and a run that reaches its end has processed every group of
\* the catalog exactly once.
C10_EveryGroupOnce ==
    /\ \A j \in 1..Len(stdout) : stdout[j] \in CatalogKeys
    /\ pc = "done" =>
          \A key \in CatalogKeys :
              Cardinality({j \in 1..Len(stdout) : stdout[j] = key}) = 1

RunEnded == pc \in {"raised", "done"}
Attempted == {stdout[j] : j \in 1..Len(stdout)}

\* a step leaves every file written for another group as it was
OtherOutputsKept ==
    \A name \in DOMAIN out_dir :
        (pc \in {"distances", "to_csv"}
            => <<name[2], name[3]>>
                 # <<LoopKeys(files)[gi].c, LoopKeys(files)[gi].d>>)
        => name \in DOMAIN out_dir' /\ out_dir'[name] = out_dir[name]

\* C11: when the processing of one group fails, every group of the catalog
\* not yet processed is still attempted afterwards, so that a run has
\* attempted every group of the catalog when it ends, with or without a
\* failure; and no step changes the persisted output of another group.
C11_FailureIsContained ==
    /\ [](RunEnded => CatalogKeys \subseteq Attempted)
    /\ [][OtherOutputsKept]_vars

====
